---- MODULE Spec2Model ----
(***************************************************************************)
(* Model of ebml/tags.py: the Tag descriptor class and the TagDict         *)
(* registry MATROSKA_TAGS (lazy initialisation, dual keying by id and      *)
(* name, unknown-id fallback, override pass, profile rebuild).             *)
(*                                                                         *)
(* Tag objects live in a heap: a sequence of records, an object's identity *)
(* being its index (address).  The registry's _dict holds addresses.  The  *)
(* operators below take and return a record s holding the whole program    *)
(* state, so that a call made inside another call (delayed_init inside     *)
(* __getitem__ inside Tag.__init__ inside delayed_init) is an operator     *)
(* application; s.err carries an exception in flight.                      *)
(***************************************************************************)
EXTENDS Integers, Sequences, FiniteSets, TLC

VARIABLES
    _dict,              \* TagDict._dict, split by key type: [ids, names]
    _initialized,       \* TagDict._initialized
    version,            \* TagDict.version
    is_webm,            \* TagDict.is_webm
    MATROSKA_TAG_DATA,  \* tagdata.MATROSKA_TAG_DATA, the row table (a list)
    heap,               \* every Tag object created so far
    rowPasses,          \* times the row loop of delayed_init was entered
    overridePasses,     \* times the override loop of delayed_init was entered
    fresh,              \* Tag objects created outside delayed_init
    last,               \* the last call of a client and what it got back
    thr                 \* threads inside MATROSKA_TAGS[key]: where each is

vars == <<_dict, _initialized, version, is_webm, MATROSKA_TAG_DATA, heap,
          rowPasses, overridePasses, fresh, last, thr>>

\* ---------------------------------------------------------------- bounds
MaxBuilds == 2      \* loads (first access and rebuilds) in one behaviour
MaxFresh == 2       \* Tag objects a client creates in one behaviour
MaxSwitches == 3    \* preemptions of a running thread in one behaviour

\* ------------------------------------------------------------- constants
INTERNAL_ID == 66

NoneP == 0          \* Python's None, where an object reference is expected
GlobalP == -1       \* the parent "*"
NoneName == "<None>"    \* None in the parent column of a row

\* A class object, told apart from the string that names it.
Class(cls_name) == "<class " \o cls_name \o ">"

\* The names delayed_init imports: locals()[cls_name] is defined for these.
ClassNames ==
    {"ElementUnsupported", "ElementPlaceholder", "ElementVoid",
     "ElementMaster", "ElementMasterDefer", "ElementAtomic", "ElementRaw",
     "ElementUnsigned", "ElementSigned", "ElementBoolean", "ElementEnum",
     "ElementBitField", "ElementFloat", "ElementString", "ElementUnicode",
     "ElementDate", "ElementID", "ElementEBML", "ElementSegment",
     "ElementSeek", "ElementInfo", "ElementTrackEntry", "ElementVideo",
     "ElementAudio", "ElementAttachedFile", "ElementTag", "ElementTargets",
     "ElementSimpleTag", "ElementEditionEntry", "ElementChapterAtom"}

\* --------------------------------------------------------- the row table
\* One row of MATROSKA_TAG_DATA: the nine keys every row has.
Row(id, name, cls_name, parent, mandatory, multiple, webm, minver, maxver) ==
    [ebml_id |-> id, name |-> name, cls_name |-> cls_name, parent |-> parent,
     mandatory |-> mandatory, multiple |-> multiple, webm |-> webm,
     minver |-> minver, maxver |-> maxver]

\* A row with the optional key default.
RowD(id, name, cls_name, parent, mandatory, multiple, webm, minver, maxver, d) ==
    [ebml_id |-> id, name |-> name, cls_name |-> cls_name, parent |-> parent,
     mandatory |-> mandatory, multiple |-> multiple, webm |-> webm,
     minver |-> minver, maxver |-> maxver, default |-> d]

\* The table as the data module ships it: a sample of the Matroska
\* catalogue, parents listed before their children.  m is the mandatory
\* flag of the DisplayWidth row.
TagData(m) ==
    << Row(440786851, "EBML", "ElementMaster", NoneName, TRUE, TRUE, TRUE, 1, 4),
       Row(236, "Void", "ElementRaw", "*", FALSE, TRUE, TRUE, 1, 4),
       Row(408125543, "Segment", "ElementMaster", NoneName, TRUE, TRUE, TRUE, 1, 4),
       Row(357149030, "Info", "ElementMaster", "Segment", TRUE, TRUE, TRUE, 1, 4),
       Row(31657, "Title", "ElementUnicode", "Info", FALSE, FALSE, TRUE, 1, 4),
       Row(374648427, "Tracks", "ElementMaster", "Segment", FALSE, TRUE, TRUE, 1, 4),
       Row(174, "TrackEntry", "ElementMaster", "Tracks", TRUE, TRUE, TRUE, 1, 4),
       RowD(185, "FlagEnabled", "ElementBoolean", "TrackEntry", TRUE, FALSE, TRUE, 2, 4, 1),
       Row(224, "Video", "ElementMaster", "TrackEntry", FALSE, FALSE, TRUE, 1, 4),
       RowD(21432, "StereoMode", "ElementUnsigned", "Video", FALSE, FALSE, TRUE, 3, 4, 0),
       Row(176, "PixelWidth", "ElementUnsigned", "Video", TRUE, FALSE, TRUE, 1, 4),
       Row(186, "PixelHeight", "ElementUnsigned", "Video", TRUE, FALSE, TRUE, 1, 4),
       Row(21680, "DisplayWidth", "ElementUnsigned", "Video", m, FALSE, TRUE, 1, 4),
       Row(21690, "DisplayHeight", "ElementUnsigned", "Video", FALSE, FALSE, TRUE, 1, 4),
       Row(225, "Audio", "ElementMaster", "TrackEntry", FALSE, FALSE, TRUE, 1, 4),
       RowD(181, "SamplingFrequency", "ElementFloat", "Audio", TRUE, FALSE, TRUE, 1, 4, 8000),
       Row(30901, "OutputSamplingFrequency", "ElementFloat", "Audio", FALSE, FALSE, TRUE, 1, 4),
       Row(423732329, "Attachments", "ElementMaster", "Segment", FALSE, FALSE, FALSE, 1, 4),
       Row(24999, "AttachedFile", "ElementMaster", "Attachments", TRUE, TRUE, FALSE, 1, 4) >>

\* The two rows delayed_init appends to the table for internal use.
InternalRows ==
    << Row(INTERNAL_ID, "LibInternal", "ElementPlaceholder", "*", FALSE, TRUE, TRUE, 1, 4),
       Row(INTERNAL_ID, "LibInternal2", "ElementPlaceholder", "*", FALSE, TRUE, TRUE, 1, 4) >>

\* The keys of a row that Tag.__init__ takes by name; the rest are **kwargs.
InitKeys ==
    {"ebml_id", "name", "cls", "parent", "mandatory", "multiple", "webm",
     "minver", "maxver"}

\* ------------------------------------------------------ the override table
\* One entry of the overrides dict: the target name and the attributes to set.
Ov(name, set) == [name |-> name, set |-> set]

TranslateCodecValues == (0 :> "Matroska Script") @@ (1 :> "DVD-menu")

TrackTypeValues ==
    (1 :> "video") @@ (2 :> "audio") @@ (3 :> "complex") @@ (16 :> "logo")
    @@ (17 :> "subtitle") @@ (18 :> "buttons") @@ (32 :> "control")

StereoModeValues ==
    (0 :> "mono") @@ (1 :> "side-by-side (left)") @@ (2 :> "top-bottom (right)")
    @@ (3 :> "top-bottom (left)") @@ (4 :> "checkerboard (right)")
    @@ (5 :> "checkerboard (left)") @@ (6 :> "row interleaved (right)")
    @@ (7 :> "row interleaved (left)") @@ (8 :> "col interleaved (right)")
    @@ (9 :> "col interleaved (left)") @@ (10 :> "anaglyph (cyan/red)")
    @@ (11 :> "side-by-side (right)") @@ (12 :> "anaglyph (green/magenta)")
    @@ (13 :> "both (left)") @@ (14 :> "both (right)")

\* The overrides dict of delayed_init, in the order of the literal.  pw, ph
\* and sf are what self['PixelWidth'], self['PixelHeight'] and
\* self['SamplingFrequency'] returned while the literal was built.
Overrides(pw, ph, sf) ==
    << Ov("EBML", [cls |-> Class("ElementEBML")]),
       Ov("Void", [cls |-> Class("ElementVoid")]),
       Ov("SignedElement", [cls |-> Class("ElementID")]),
       Ov("Segment", [cls |-> Class("ElementSegment"), header_size_min |-> 8]),
       Ov("Seek", [cls |-> Class("ElementSeek")]),
       Ov("SeekID", [cls |-> Class("ElementID")]),
       Ov("SeekPosition", [data_size_min |-> 8]),
       Ov("Info", [cls |-> Class("ElementInfo")]),
       Ov("Title", [data_size_min |-> 100]),
       Ov("EditionEntry", [cls |-> Class("ElementEditionEntry")]),
       Ov("ChapterAtom", [cls |-> Class("ElementChapterAtom")]),
       Ov("ChapterTranslateCodec",
          [cls |-> Class("ElementEnum"), values |-> TranslateCodecValues]),
       Ov("SimpleBlock", [cls |-> Class("ElementRaw")]),
       Ov("Block", [cls |-> Class("ElementUnsupported")]),
       Ov("BlockVirtual", [cls |-> Class("ElementUnsupported")]),
       Ov("BlockAdditional", [cls |-> Class("ElementUnsupported")]),
       Ov("CodecState", [cls |-> Class("ElementUnsupported")]),
       Ov("EncryptedBlock", [cls |-> Class("ElementUnsupported")]),
       Ov("TrackEntry", [cls |-> Class("ElementTrackEntry")]),
       Ov("TrackType", [cls |-> Class("ElementEnum"), values |-> TrackTypeValues]),
       Ov("TrackTranslateCodec",
          [cls |-> Class("ElementEnum"), values |-> TranslateCodecValues]),
       Ov("Video", [cls |-> Class("ElementVideo")]),
       Ov("StereoMode", [cls |-> Class("ElementEnum"), values |-> StereoModeValues]),
       Ov("DisplayWidth", [default |-> pw]),
       Ov("DisplayHeight", [default |-> ph]),
       Ov("DisplayUnit",
          [cls |-> Class("ElementEnum"),
           values |-> (0 :> "pixels") @@ (1 :> "centimeters") @@ (2 :> "inches")
                      @@ (3 :> "Display Aspect Ratio")]),
       Ov("AspectRatioType",
          [cls |-> Class("ElementEnum"),
           values |-> (0 :> "free resizing") @@ (1 :> "keep aspect ratio")
                      @@ (2 :> "fixed")]),
       Ov("Colour", [cls |-> Class("ElementRaw")]),
       Ov("Audio", [cls |-> Class("ElementAudio")]),
       Ov("OutputSamplingFrequency", [default |-> sf]),
       Ov("TrackPlaneType",
          [cls |-> Class("ElementEnum"),
           values |-> (0 :> "left eye") @@ (1 :> "right eye") @@ (2 :> "background")]),
       Ov("ContentEncodingScope",
          [cls |-> Class("ElementBitField"),
           values |-> (0 :> "all-frame-contents") @@ (1 :> "track-private-data")
                      @@ (2 :> "the-next-ContentEncoding")]),
       Ov("ContentEncodingType",
          [cls |-> Class("ElementEnum"),
           values |-> (0 :> "compression") @@ (1 :> "encryption")]),
       Ov("ContentCompAlgo",
          [cls |-> Class("ElementEnum"),
           values |-> (0 :> "zlib") @@ (1 :> "bzlib") @@ (2 :> "lzo1x")
                      @@ (3 :> "Header Stripping")]),
       Ov("ContentEncAlgo",
          [cls |-> Class("ElementEnum"),
           values |-> (0 :> "signed only") @@ (1 :> "DES") @@ (2 :> "3DES")
                      @@ (3 :> "Twofish") @@ (4 :> "Blowfish") @@ (5 :> "AES")]),
       Ov("ContentSigAlgo",
          [cls |-> Class("ElementEnum"),
           values |-> (0 :> "signed only") @@ (1 :> "RSA")]),
       Ov("ContentSigHashAlgo",
          [cls |-> Class("ElementEnum"),
           values |-> (0 :> "signed only") @@ (1 :> "SHA1-160") @@ (2 :> "MD5")]),
       Ov("Cues", [cls |-> Class("ElementMasterDefer")]),
       Ov("Attachments", [header_size_min |-> 4]),
       Ov("AttachedFile", [cls |-> Class("ElementAttachedFile"), header_size_min |-> 4]),
       Ov("FileUID", [cls |-> Class("ElementRaw")]),
       Ov("Tag", [cls |-> Class("ElementTag")]),
       Ov("Targets", [cls |-> Class("ElementTargets")]),
       Ov("SimpleTag", [cls |-> Class("ElementSimpleTag")]) >>

\* ------------------------------------------------------------ class Tag
\* The attributes every Tag has after __init__; the others (default,
\* recursive, values, ...) exist only once they were set, and attrs names
\* those that exist: hasattr(tag, a) is a \in tag.attrs.
FixedAttrs ==
    {"ebml_id", "name", "cls", "parent", "_mandatory", "multiple",
     "header_size_min", "data_size_min", "webm", "minver", "maxver", "children"}

\* setattr(tag, name, val) for every name |-> val of the record kv.
SetAttrs(tag, kv) ==
    [tag EXCEPT
        !.cls = IF "cls" \in DOMAIN kv THEN kv.cls ELSE @,
        !.header_size_min =
            IF "header_size_min" \in DOMAIN kv THEN kv.header_size_min ELSE @,
        !.data_size_min =
            IF "data_size_min" \in DOMAIN kv THEN kv.data_size_min ELSE @,
        !.default = IF "default" \in DOMAIN kv THEN kv.default ELSE @,
        !.recursive = IF "recursive" \in DOMAIN kv THEN kv.recursive ELSE @,
        !.values = IF "values" \in DOMAIN kv THEN kv.values ELSE @,
        !.attrs = @ \cup (DOMAIN kv \ FixedAttrs)]

\* Tag.mandatory
Mandatory_IgnoresDefault(h, a) == h[a]._mandatory

Mandatory(h, a) == IF "default" \in h[a].attrs THEN FALSE ELSE h[a]._mandatory

\* Tag.required_children: the children, in order, that are mandatory.
RequiredChildren_AsConstructed(h, a) ==
    SelectSeq(h[a].children, LAMBDA c : h[c]._mandatory)

RequiredChildren(h, a) == SelectSeq(h[a].children, LAMBDA c : Mandatory(h, c))

\* Tag.unique_children
UniqueChildren(h, a) == SelectSeq(h[a].children, LAMBDA c : ~h[c].multiple)

\* Tag.__eq__: other is a Tag reference or None.
TagEq(h, a, other) == other # NoneP /\ h[a].ebml_id = h[other].ebml_id

\* Tag.is_child: tag is a Tag reference or None.
IsChild(h, a, tag) ==
    IF tag = NoneP
    THEN h[a].parent = NoneP \/ h[a].parent = GlobalP
    ELSE IF (h[a].parent \notin {NoneP, GlobalP} /\ TagEq(h, h[a].parent, tag))
            \/ h[a].parent = GlobalP
         THEN TRUE
         ELSE "recursive" \in h[a].attrs /\ TagEq(h, tag, a)

\* A new Tag object as Tag.__init__ leaves it, before the **kwargs are set.
\* a holds the nine named arguments, parent the resolved parent reference.
NewTagRecord(a, parent) ==
    [ebml_id |-> a.ebml_id, name |-> a.name, cls |-> a.cls, parent |-> parent,
     _mandatory |-> a.mandatory, multiple |-> a.multiple,
     header_size_min |-> 0, data_size_min |-> 0,
     webm |-> a.webm, minver |-> a.minver, maxver |-> a.maxver,
     children |-> <<>>, attrs |-> {},
     default |-> 0, recursive |-> FALSE, values |-> <<>>]

\* The nine named arguments of Tag.__init__.
TagArgs(id, name, cls, parent, mandatory, multiple, webm, minver, maxver) ==
    [ebml_id |-> id, name |-> name, cls |-> cls, parent |-> parent,
     mandatory |-> mandatory, multiple |-> multiple, webm |-> webm,
     minver |-> minver, maxver |-> maxver]

\* ---------------------------------------------------------- class TagDict
\* A key of the mapping: an int or a str.
KeyI(i) == [isint |-> TRUE, i |-> i, n |-> ""]
KeyN(n) == [isint |-> FALSE, i |-> 0, n |-> n]

\* key in self._dict
HasKey(d, key) ==
    IF key.isint THEN key.i \in DOMAIN d.ids ELSE key.n \in DOMAIN d.names

\* self._dict[key], for a key that is there
At(d, key) == IF key.isint THEN d.ids[key.i] ELSE d.names[key.n]

\* TagDict.__init__: the empty mapping
EmptyDict == [ids |-> <<>>, names |-> <<>>]

\* The objects self._dict holds.
Stored(d) == {d.ids[k] : k \in DOMAIN d.ids} \cup {d.names[n] : n \in DOMAIN d.names}

\* len(self._dict)
DictLen(d) == Cardinality(DOMAIN d.ids) + Cardinality(DOMAIN d.names)

\* raise e
Raise(s, e) == [s EXCEPT !.err = e]

\* isinstance(x, Tag), for a reference x
IsTag(s, x) == x \in 1..Len(s.heap)

\* TagDict.insert
Insert_IdOnly(s, tag) ==
    IF IsTag(s, tag)
    THEN [s EXCEPT !.dict.ids = (s.heap[tag].ebml_id :> tag) @@ @]
    ELSE Raise(s, "ValueError")

Insert(s, tag) ==
    IF IsTag(s, tag)
    THEN [s EXCEPT !.dict.ids = (s.heap[tag].ebml_id :> tag) @@ @,
                   !.dict.names = (s.heap[tag].name :> tag) @@ @]
    ELSE Raise(s, "ValueError")

\* f without the key k
Del(f, k) == [j \in DOMAIN f \ {k} |-> f[j]]

\* TagDict.remove: the lookup of ebml_id and each del raise KeyError on a
\* missing key; a del that was made stays made.
Remove(s, ebml_id) ==
    IF ebml_id \notin DOMAIN s.dict.ids THEN Raise(s, "KeyError")
    ELSE LET tag == s.dict.ids[ebml_id]
         IN IF s.heap[tag].name \notin DOMAIN s.dict.names
            THEN Raise([s EXCEPT !.dict.ids = Del(@, ebml_id)], "KeyError")
            ELSE [s EXCEPT !.dict.ids = Del(@, ebml_id),
                           !.dict.names = Del(@, s.heap[tag].name)]

RECURSIVE DelayedInit(_), GetItem(_, _)

\* The Tag that __getitem__ makes up for an int key it does not hold.
UnknownArgs(key) ==
    TagArgs(key, "Unknown", "ElementUnsupported", "*", FALSE, TRUE, TRUE, 1, 4)

\* Tag.__init__ once the parent reference is known: the new object, s.ret,
\* is appended to the children of a parent that is a Tag.
TagCreate(s, a, kw, parent) ==
    LET self == Len(s.heap) + 1
        linked == IF parent \in {NoneP, GlobalP} THEN s.heap
                  ELSE [s.heap EXCEPT ![parent].children = Append(@, self)]
    IN [s EXCEPT !.heap = Append(linked, SetAttrs(NewTagRecord(a, parent), kw)),
                 !.ret = self]

\* Tag.__init__ after MATROSKA_TAGS[parent] ended in state g: an exception
\* of the lookup leaves no object behind.
TagLink(g, a, kw) == IF g.err # "none" THEN g ELSE TagCreate(g, a, kw, g.ret)

\* Tag.__init__(**a, **kw): s.ret is the new object.
TagInit(s, a, kw) ==
    IF a.parent = NoneName THEN TagCreate(s, a, kw, NoneP)
    ELSE IF a.parent = "*" THEN TagCreate(s, a, kw, GlobalP)
    ELSE TagLink(GetItem(s, KeyN(a.parent)), a, kw)

\* TagDict.__getitem__ after its delayed_init call ended in state s1.
GetItemLoaded_KeepsUnknown(s1, key) ==
    IF s1.err # "none" THEN s1
    ELSE IF HasKey(s1.dict, key) THEN [s1 EXCEPT !.ret = At(s1.dict, key)]
    ELSE IF key.isint
         THEN [TagInit(s1, UnknownArgs(key.i), <<>>) EXCEPT
                 !.fresh = @ + 1, !.dict.ids = (key.i :> (Len(s1.heap) + 1)) @@ @]
         ELSE Raise(s1, "KeyError")

GetItemLoaded_AnyKeyFallback(s1, key) ==
    IF s1.err # "none" THEN s1
    ELSE IF HasKey(s1.dict, key) THEN [s1 EXCEPT !.ret = At(s1.dict, key)]
    ELSE [TagInit(s1, UnknownArgs(key.i), <<>>) EXCEPT !.fresh = @ + 1]

GetItemLoaded(s1, key) ==
    IF s1.err # "none" THEN s1
    ELSE IF HasKey(s1.dict, key) THEN [s1 EXCEPT !.ret = At(s1.dict, key)]
    ELSE IF key.isint
         THEN [TagInit(s1, UnknownArgs(key.i), <<>>) EXCEPT !.fresh = @ + 1]
         ELSE Raise(s1, "KeyError")

\* TagDict.__getitem__
GetItem(s, key) == GetItemLoaded(DelayedInit(s), key)

\* TagDict.__contains__ after its delayed_init call: s.flag is the answer.
ContainsLoaded(s1, key) ==
    IF s1.err # "none" THEN s1 ELSE [s1 EXCEPT !.flag = HasKey(s1.dict, key)]

\* TagDict.__contains__
Contains(s, key) == ContainsLoaded(DelayedInit(s), key)

\* TagDict.get(key), default None, after its delayed_init call.
GetLoaded(s1, key) ==
    IF s1.err # "none" THEN s1
    ELSE [s1 EXCEPT !.ret = IF HasKey(s1.dict, key) THEN At(s1.dict, key)
                             ELSE NoneP]

\* TagDict.get
Get(s, key) == GetLoaded(DelayedInit(s), key)

\* TagDict.level0s: the values under an int key whose parent is None.
Level0s(s) ==
    {s.dict.ids[k] : k \in {j \in DOMAIN s.dict.ids : s.heap[s.dict.ids[j]].parent = NoneP}}

\* Whether delayed_init loads the row under the active profile.
Applies_WebmIgnored(s, tag_data) ==
    ~(s.version < tag_data.minver \/ s.version > tag_data.maxver)

Applies(s, tag_data) ==
    IF s.is_webm THEN tag_data.webm
    ELSE ~(s.version < tag_data.minver \/ s.version > tag_data.maxver)

\* The copy of a row that delayed_init hands to Tag: its named arguments ...
RowArgs(tag_data) ==
    TagArgs(tag_data.ebml_id, tag_data.name, Class(tag_data.cls_name),
            tag_data.parent, tag_data.mandatory, tag_data.multiple,
            tag_data.webm, tag_data.minver, tag_data.maxver)

\* ... and its **kwargs, the keys that are no named argument.
RowKwargs(tag_data) ==
    [k \in DOMAIN tag_data \ (InitKeys \cup {"cls_name"}) |-> tag_data[k]]

RECURSIVE RowLoop(_, _)

\* self.insert(Tag(**tag_data)) once the Tag call ended in state t, and on
\* to the next row.
RowInsert(t, i) ==
    IF t.err # "none" THEN t ELSE RowLoop(Insert(t, t.ret), i + 1)

\* The row loop of delayed_init, from row i of the table on.
RowLoop(s, i) ==
    IF i > Len(s.data) THEN s
    ELSE IF ~Applies(s, s.data[i]) THEN RowLoop(s, i + 1)
    ELSE IF s.data[i].cls_name \notin ClassNames THEN Raise(s, "KeyError")
    ELSE RowInsert(TagInit(s, RowArgs(s.data[i]), RowKwargs(s.data[i])), i)

RECURSIVE OverrideLoop(_, _, _)

\* The body of the override loop once tag = self[tag_name] ended in state g.
OverrideSet(g, overrides, i) ==
    IF g.err # "none" THEN g
    ELSE OverrideLoop([g EXCEPT !.heap[g.ret] = SetAttrs(@, overrides[i].set)],
                      overrides, i + 1)

\* The body of the override loop once tag_name in self ended in state c.
OverrideEntry(c, overrides, i) ==
    IF c.err # "none" THEN c
    ELSE IF ~c.flag THEN OverrideLoop(c, overrides, i + 1)
    ELSE OverrideSet(GetItem(c, KeyN(overrides[i].name)), overrides, i)

\* The override loop of delayed_init, from entry i of overrides on.
OverrideLoop(s, overrides, i) ==
    IF i > Len(overrides) THEN s
    ELSE OverrideEntry(Contains(s, KeyN(overrides[i].name)), overrides, i)

\* delayed_init from the overrides literal on.  The literal makes three
\* lookups while it is built: self['SamplingFrequency'] ended in state sf,
OverridesBuilt(pw, ph, sf) ==
    IF sf.err # "none" THEN sf
    ELSE OverrideLoop([sf EXCEPT !.overridePasses = @ + 1],
                      Overrides(pw, ph, sf.ret), 1)

\* self['PixelHeight'] in state ph,
OverridesFromHeight(pw, ph) ==
    IF ph.err # "none" THEN ph
    ELSE OverridesBuilt(pw, ph.ret, GetItem(ph, KeyN("SamplingFrequency")))

\* self['PixelWidth'] in state pw.
OverridesFromWidth(pw) ==
    IF pw.err # "none" THEN pw
    ELSE OverridesFromHeight(pw.ret, GetItem(pw, KeyN("PixelHeight")))

OverridePass(s) == OverridesFromWidth(GetItem(s, KeyN("PixelWidth")))

\* delayed_init from the append of the internal rows to the end of the row
\* loop.
RowPass(s) ==
    RowLoop([s EXCEPT !.data = @ \o InternalRows, !.rowPasses = @ + 1], 1)

AfterRows_OverridesAnyway(r) == OverridePass([r EXCEPT !.err = "none"])

\* delayed_init after the row loop ended in state r.
AfterRows(r) == IF r.err # "none" THEN r ELSE OverridePass(r)

\* TagDict.delayed_init
DelayedInit_FlagLeftUnset(s) ==
    IF s.initialized THEN s
    ELSE [AfterRows(RowPass([s EXCEPT !.initialized = TRUE]))
            EXCEPT !.initialized = FALSE]

DelayedInit(s) ==
    IF s.initialized THEN s
    ELSE AfterRows(RowPass([s EXCEPT !.initialized = TRUE]))

\* TagDict.set_doc_type_and_version
SetDocTypeAndVersion_NoReload(s, doc_type, v) ==
    IF doc_type \notin {"webm", "matroska"} THEN Raise(s, "AssertionError")
    ELSE [s EXCEPT !.is_webm = (doc_type = "webm"), !.version = v,
                   !.initialized = FALSE, !.dict = EmptyDict]

SetDocTypeAndVersion_KeepsDict(s, doc_type, v) ==
    IF doc_type \notin {"webm", "matroska"} THEN Raise(s, "AssertionError")
    ELSE DelayedInit([s EXCEPT !.is_webm = (doc_type = "webm"), !.version = v,
                               !.initialized = FALSE])

SetDocTypeAndVersion(s, doc_type, v) ==
    IF doc_type \notin {"webm", "matroska"} THEN Raise(s, "AssertionError")
    ELSE DelayedInit([s EXCEPT !.is_webm = (doc_type = "webm"), !.version = v,
                               !.initialized = FALSE, !.dict = EmptyDict])

\* ------------------------------------------------------------ the clients
\* What a client passes in.
KeyIds == {24999, 999}          \* AttachedFile's id, and no row's id
KeyNames == {"Segment", "Attachments", "Unknown"}
Keys == {KeyI(i) : i \in KeyIds} \cup {KeyN(n) : n \in KeyNames}
DocTypes == {"webm", "matroska", "ebml"}
Versions == {2, 5}

\* The program state as the record the operators work on.
St ==
    [dict |-> _dict, initialized |-> _initialized, version |-> version,
     is_webm |-> is_webm, data |-> MATROSKA_TAG_DATA, heap |-> heap,
     rowPasses |-> rowPasses, overridePasses |-> overridePasses,
     fresh |-> fresh, err |-> "none", ret |-> NoneP, flag |-> FALSE]

\* No call made yet.
NoCall ==
    [op |-> "none", key |-> KeyI(0), exc |-> "none", tag |-> NoneP,
     arg |-> NoneP, flag |-> FALSE, n |-> 0, ids |-> {}, names |-> {}, vals |-> {},
     pre |-> EmptyDict]

\* Two threads, each about to make one lookup.
Threads == {1, 2}

\* What a thread's lookup gave, and what the registry held when it was made.
NoResult ==
    [key |-> KeyI(0), exc |-> "none", tag |-> NoneP, header_size_min |-> 0,
     ids |-> {}, names |-> {}, overridePasses |-> 0]

\* No thread has started; loaders are the threads that found the flag unset.
NoThreads ==
    [pc |-> [t \in Threads |-> "check"], row |-> [t \in Threads |-> 0],
     res |-> [t \in Threads |-> NoResult], loaders |-> {},
     running |-> 0, switches |-> 0]

\* A call ends in state r, having returned or raised what call says.
Return(r, call) ==
    /\ r.rowPasses <= MaxBuilds
    /\ r.fresh <= MaxFresh
    /\ _dict' = r.dict
    /\ _initialized' = r.initialized
    /\ version' = r.version
    /\ is_webm' = r.is_webm
    /\ MATROSKA_TAG_DATA' = r.data
    /\ heap' = r.heap
    /\ rowPasses' = r.rowPasses
    /\ overridePasses' = r.overridePasses
    /\ fresh' = r.fresh
    /\ last' = [call EXCEPT !.exc = r.err]
    /\ thr' = thr

Init ==
    /\ _dict = EmptyDict
    /\ _initialized = FALSE
    /\ version = 4
    /\ is_webm = FALSE
    /\ MATROSKA_TAG_DATA \in {TagData(m) : m \in BOOLEAN}
    /\ heap = <<>>
    /\ rowPasses = 0
    /\ overridePasses = 0
    /\ fresh = 0
    /\ last = NoCall
    /\ thr = NoThreads

\* A call whose answer is a reference (or an exception).
ReturnTag(r, op, key) ==
    Return(r, [NoCall EXCEPT !.op = op, !.key = key,
                 !.tag = IF r.err = "none" THEN r.ret ELSE NoneP])

\* A call whose answer is a bool.
ReturnFlag(r, op, key) ==
    Return(r, [NoCall EXCEPT !.op = op, !.key = key, !.flag = r.flag])

\* A call that answers with the mapping's size, keys or values.
ReturnView(r, op) ==
    Return(r, [NoCall EXCEPT
                 !.op = op,
                 !.n = IF op = "len" THEN DictLen(r.dict) ELSE 0,
                 !.ids = IF op \in {"iter", "keys", "items"}
                         THEN DOMAIN r.dict.ids ELSE {},
                 !.names = IF op \in {"iter", "keys", "items"}
                           THEN DOMAIN r.dict.names ELSE {},
                 !.vals = IF op \in {"items", "values"} THEN Stored(r.dict)
                          ELSE IF op = "level0s" THEN Level0s(r) ELSE {}])

\* MATROSKA_TAGS[key]
GetItemCall == \E key \in Keys : ReturnTag(GetItem(St, key), "getitem", key)

\* len(MATROSKA_TAGS)
LenCall == ReturnView(DelayedInit(St), "len")

\* iter(MATROSKA_TAGS)
IterCall == ReturnView(DelayedInit(St), "iter")

\* key in MATROSKA_TAGS
ContainsCall == \E key \in Keys : ReturnFlag(Contains(St, key), "contains", key)

\* MATROSKA_TAGS.keys()
KeysCall == ReturnView(DelayedInit(St), "keys")

\* MATROSKA_TAGS.items()
ItemsCall == ReturnView(DelayedInit(St), "items")

\* MATROSKA_TAGS.values()
ValuesCall == ReturnView(DelayedInit(St), "values")

\* MATROSKA_TAGS.get(key)
GetCall == \E key \in Keys : ReturnTag(Get(St, key), "get", key)

\* list(MATROSKA_TAGS.level0s()): items() first, which loads.
Level0sCall == ReturnView(DelayedInit(St), "level0s")

\* MATROSKA_TAGS.delayed_init()
DelayedInitCall == ReturnView(DelayedInit(St), "delayed_init")

\* MATROSKA_TAGS.set_doc_type_and_version(doc_type, v)
SetDocTypeAndVersionCall ==
    /\ rowPasses < MaxBuilds
    /\ \E doc_type \in DocTypes, v \in Versions :
        Return(SetDocTypeAndVersion(St, doc_type, v),
               [NoCall EXCEPT !.op = "set_doc_type_and_version",
                              !.key = KeyN(doc_type), !.n = v])

ReadOps ==
    {"getitem", "len", "iter", "contains", "keys", "items", "values", "get",
     "level0s"}

Next ==
    \/ GetItemCall
    \/ LenCall
    \/ IterCall
    \/ ContainsCall
    \/ KeysCall
    \/ ItemsCall
    \/ ValuesCall
    \/ GetCall
    \/ Level0sCall
    \/ DelayedInitCall
    \/ SetDocTypeAndVersionCall

Spec == Init /\ [][Next]_vars

\* ------------------------------------------------------ two threads,
\* each in MATROSKA_TAGS[key], no lock held: a step is what one thread does
\* between two points where the interpreter may switch threads.
RaceKeys == {KeyN("Segment"), KeyN("DisplayWidth"), KeyI(21680)}

\* A step of t would take the processor from a thread that is not done.
Preempts(t) ==
    IF thr.running \in {0, t} THEN FALSE ELSE thr.pc[thr.running] # "done"

\* Thread t may run: it runs on, or takes over from a thread that is done,
\* or preempts the running thread.
Scheduled(t) ==
    /\ thr.pc[t] # "done"
    /\ Preempts(t) => thr.switches < MaxSwitches

\* thr after a step of t that leaves t at pc.
Ran(t, pc) ==
    [thr EXCEPT !.pc[t] = pc, !.running = t,
                !.switches = IF Preempts(t) THEN @ + 1 ELSE @]

\* The shared state after a thread's step that ended in state r.
Shared(r) ==
    /\ r.rowPasses <= MaxBuilds
    /\ r.fresh <= MaxFresh
    /\ _dict' = r.dict
    /\ _initialized' = r.initialized
    /\ version' = r.version
    /\ is_webm' = r.is_webm
    /\ MATROSKA_TAG_DATA' = r.data
    /\ heap' = r.heap
    /\ rowPasses' = r.rowPasses
    /\ overridePasses' = r.overridePasses
    /\ fresh' = r.fresh
    /\ last' = last

\* delayed_init: if self._initialized: return
CheckFlag(t) ==
    /\ Scheduled(t) /\ thr.pc[t] = "check"
    /\ Shared(St)
    /\ thr' = IF _initialized THEN Ran(t, "lookup")
              ELSE [Ran(t, "set") EXCEPT !.loaders = @ \cup {t}]

\* delayed_init: self._initialized = True
SetFlag(t) ==
    /\ Scheduled(t) /\ thr.pc[t] = "set"
    /\ Shared([St EXCEPT !.initialized = TRUE])
    /\ thr' = Ran(t, "append")

\* delayed_init: the two MATROSKA_TAG_DATA.append calls
AppendInternal(t) ==
    /\ Scheduled(t) /\ thr.pc[t] = "append"
    /\ Shared([St EXCEPT !.data = @ \o InternalRows, !.rowPasses = @ + 1])
    /\ thr' = [Ran(t, "rows") EXCEPT !.row[t] = 1]

\* self.insert(Tag(**tag_data)) once the Tag call ended in state g.
RowInserted(g) == IF g.err # "none" THEN g ELSE Insert(g, g.ret)

\* One turn of the row loop, for row i of the table.
RowBody_SkipsRegistered(s, i) ==
    IF ~Applies(s, s.data[i]) \/ s.data[i].name \in DOMAIN s.dict.names THEN s
    ELSE IF s.data[i].cls_name \notin ClassNames THEN Raise(s, "KeyError")
    ELSE RowInserted(TagInit(s, RowArgs(s.data[i]), RowKwargs(s.data[i])))

RowBody(s, i) ==
    IF ~Applies(s, s.data[i]) THEN s
    ELSE IF s.data[i].cls_name \notin ClassNames THEN Raise(s, "KeyError")
    ELSE RowInserted(TagInit(s, RowArgs(s.data[i]), RowKwargs(s.data[i])))

\* A thread's step ended in state r with an exception: the thread is done.
Raised(t, r) ==
    [Ran(t, "done") EXCEPT !.res[t] = [NoResult EXCEPT !.exc = r.err]]

\* The turn of the row loop ended in state r.
RowDone(t, r) ==
    /\ Shared(r)
    /\ thr' = IF r.err # "none" THEN Raised(t, r)
              ELSE [Ran(t, "rows") EXCEPT !.row[t] = @ + 1]

\* delayed_init: the next turn of "for tag_data in MATROSKA_TAG_DATA", which
\* walks the list as it is now, or the end of the loop
RowStep(t) ==
    /\ Scheduled(t) /\ thr.pc[t] = "rows"
    /\ IF thr.row[t] > Len(MATROSKA_TAG_DATA)
       THEN Shared(St) /\ thr' = Ran(t, "overrides")
       ELSE RowDone(t, RowBody(St, thr.row[t]))

\* The override pass ended in state r.
OverridesDone(t, r) ==
    /\ Shared(r)
    /\ thr' = IF r.err # "none" THEN Raised(t, r) ELSE Ran(t, "lookup")

\* delayed_init: the overrides literal and the override loop
OverrideStep(t) ==
    /\ Scheduled(t) /\ thr.pc[t] = "overrides"
    /\ OverridesDone(t, OverridePass(St))

\* The lookup ended in state r: what it gave and what the registry held.
LookupDone(t, key, r) ==
    /\ Shared(r)
    /\ thr' = [Ran(t, "done") EXCEPT
                 !.res[t] = [key |-> key, exc |-> r.err,
                             tag |-> IF r.err = "none" THEN r.ret ELSE NoneP,
                             header_size_min |->
                                IF r.err = "none" THEN r.heap[r.ret].header_size_min
                                ELSE 0,
                             ids |-> DOMAIN _dict.ids,
                             names |-> DOMAIN _dict.names,
                             overridePasses |-> overridePasses]]

\* __getitem__ after delayed_init returned: self._dict[key], or the fallback
LookupStep(t) ==
    /\ Scheduled(t) /\ thr.pc[t] = "lookup"
    /\ \E key \in RaceKeys : LookupDone(t, key, GetItemLoaded(St, key))

NextRace ==
    \E t \in Threads :
        \/ CheckFlag(t)
        \/ SetFlag(t)
        \/ AppendInternal(t)
        \/ RowStep(t)
        \/ OverrideStep(t)
        \/ LookupStep(t)

SpecRace == Init /\ [][NextRace]_vars

\* ------------------------------------------- a table with an orphan row
\* Tables in which a profile keeps a row and drops the row of its parent:
\* AttachedFile kept by webm while Attachments is not, and Tracks ending
\* with version 3 while TrackEntry goes on to 4.
OrphanTables ==
    { [TagData(FALSE) EXCEPT ![19].webm = TRUE],
      [TagData(FALSE) EXCEPT ![6].maxver = 3] }

InitOrphan ==
    /\ _dict = EmptyDict
    /\ _initialized = FALSE
    /\ version = 4
    /\ is_webm = FALSE
    /\ MATROSKA_TAG_DATA \in OrphanTables
    /\ heap = <<>>
    /\ rowPasses = 0
    /\ overridePasses = 0
    /\ fresh = 0
    /\ last = NoCall
    /\ thr = NoThreads

SpecOrphan == InitOrphan /\ [][Next]_vars

\* ------------------------------------------------------------ class Tag,
\* used by a client: Tag(...) and tag.is_child(container)
NewTagIds == {7, 408125543}     \* no row's id, and Segment's id
NewTagParents == {NoneName, "*", "Segment"}
NewTagKwargs == {<<>>, [recursive |-> TRUE], [recursive |-> FALSE]}

\* The Tag objects a client holds: its own and a few it looked up.
Held == {a \in DOMAIN heap : heap[a].name \in {"X", "Segment", "Info", "Void"}}

\* Tag(id, "X", ElementMaster, parent, False, True, True, 1, 4, **kw)
NewTagCall ==
    /\ fresh < MaxFresh
    /\ \E id \in NewTagIds, parent \in NewTagParents, kw \in NewTagKwargs :
        ReturnTag([TagInit(St,
                           TagArgs(id, "X", Class("ElementMaster"), parent,
                                   FALSE, TRUE, TRUE, 1, 4),
                           kw) EXCEPT !.fresh = @ + 1],
                  "Tag", KeyN(parent))

\* d.is_child(c)
IsChildCall ==
    /\ \E d \in Held, c \in Held \cup {NoneP} :
        last' = [NoCall EXCEPT !.op = "is_child", !.tag = d, !.arg = c,
                               !.flag = IsChild(heap, d, c)]
    /\ UNCHANGED <<_dict, _initialized, version, is_webm, MATROSKA_TAG_DATA,
                   heap, rowPasses, overridePasses, fresh, thr>>

NextTag ==
    \/ NewTagCall
    \/ IsChildCall

SpecTag == Init /\ [][NextTag]_vars

\* ------------------------------------------------- insert and remove,
\* used by a client next to Tag(...) and the reads
MutIds == {7, 408125543}        \* no row's id, and Segment's id
MutParents == {NoneName, "Segment"}
MutKeys == {KeyI(i) : i \in MutIds} \cup {KeyN("X")}
NonTags == {NoneP}              \* None: no Tag instance
RemoveIds == MutIds \cup {INTERNAL_ID}

\* The Tag objects the client made itself.
Own == {a \in DOMAIN heap : heap[a].name = "X"}

\* Tag(id, "X", ElementMaster, parent, False, True, True, 1, 4)
PlainTagCall ==
    /\ fresh < MaxFresh
    /\ \E id \in MutIds, parent \in MutParents :
        ReturnTag([TagInit(St,
                           TagArgs(id, "X", Class("ElementMaster"), parent,
                                   FALSE, TRUE, TRUE, 1, 4),
                           <<>>) EXCEPT !.fresh = @ + 1],
                  "Tag", KeyN(parent))

\* MATROSKA_TAGS.insert(x); last.pre is the mapping before the call.
InsertCall ==
    \E x \in Own \cup NonTags :
        Return(Insert(St, x),
               [NoCall EXCEPT !.op = "insert", !.arg = x, !.pre = _dict])

\* MATROSKA_TAGS.remove(ebml_id); last.tag is what the id mapped to.
RemoveCall ==
    \E ebml_id \in RemoveIds :
        Return(Remove(St, ebml_id),
               [NoCall EXCEPT !.op = "remove", !.key = KeyI(ebml_id),
                              !.pre = _dict,
                              !.tag = IF ebml_id \in DOMAIN _dict.ids
                                      THEN _dict.ids[ebml_id] ELSE NoneP])

\* MATROSKA_TAGS[key], for the keys of the client's own tags
LookupCall == \E key \in MutKeys : ReturnTag(GetItem(St, key), "getitem", key)

\* key in MATROSKA_TAGS, for the same keys
MemberCall == \E key \in MutKeys : ReturnFlag(Contains(St, key), "contains", key)

NextMut ==
    \/ PlainTagCall
    \/ InsertCall
    \/ RemoveCall
    \/ LookupCall
    \/ MemberCall

SpecMut == Init /\ [][NextMut]_vars

\* ------------------------------------------------------------ properties
Names == DOMAIN _dict.names
Ids == DOMAIN _dict.ids

\* The registered object of a name, None when there is none.
Ref(n) == IF n \in Names THEN _dict.names[n] ELSE NoneP

\* How often x occurs in seq.
Count(seq, x) == Cardinality({i \in 1..Len(seq) : seq[i] = x})

\* The override table, for its names and attribute names alone.
OverrideKeys == Overrides(NoneP, NoneP, NoneP)

\* Some override entry for name sets attribute k.
HasOverride(name, k) ==
    \E i \in 1..Len(OverrideKeys) :
        OverrideKeys[i].name = name /\ k \in DOMAIN OverrideKeys[i].set

\* Every entry of the override table ov with a registered target shows on
\* that target.
Applied(ov) ==
    \A i \in 1..Len(ov) :
        ov[i].name \in Names =>
            \A k \in DOMAIN ov[i].set :
                /\ heap[Ref(ov[i].name)][k] = ov[i].set[k]
                /\ k \notin FixedAttrs => k \in heap[Ref(ov[i].name)].attrs

\* The same for the override table as the registry's own lookups resolve it.
OverridesApplied ==
    Applied(Overrides(Ref("PixelWidth"), Ref("PixelHeight"), Ref("SamplingFrequency")))

\* What no override entry sets still has the value construction gave it.
BaseValuesKept ==
    \A i \in 1..Len(MATROSKA_TAG_DATA) :
        LET r == MATROSKA_TAG_DATA[i]
        IN r.name \in Names =>
            /\ ~HasOverride(r.name, "cls") => heap[Ref(r.name)].cls = Class(r.cls_name)
            /\ ~HasOverride(r.name, "header_size_min") => heap[Ref(r.name)].header_size_min = 0
            /\ ~HasOverride(r.name, "data_size_min") => heap[Ref(r.name)].data_size_min = 0
            /\ (~HasOverride(r.name, "default") /\ "default" \notin DOMAIN r)
                    => "default" \notin heap[Ref(r.name)].attrs

\* The row is registered under both keys, as a Tag built from it.
RowRegistered(r) ==
    /\ r.name \in Names
    /\ r.ebml_id \in Ids
    /\ heap[_dict.ids[r.ebml_id]].ebml_id = r.ebml_id
    /\ LET d == heap[Ref(r.name)]
       IN /\ d.ebml_id = r.ebml_id
          /\ d.name = r.name
          /\ d._mandatory = r.mandatory
          /\ d.multiple = r.multiple
          /\ d.webm = r.webm
          /\ d.minver = r.minver
          /\ d.maxver = r.maxver
          /\ IF r.parent = NoneName THEN d.parent = NoneP
             ELSE IF r.parent = "*" THEN d.parent = GlobalP
             ELSE r.parent \in Names /\ d.parent = Ref(r.parent)

\* The row belongs to the active profile.
InProfile(r) ==
    IF is_webm THEN r.webm ELSE r.minver <= version /\ version <= r.maxver

\* The table is loaded in full for the active profile.
Populated ==
    /\ \A i \in 1..Len(MATROSKA_TAG_DATA) :
        InProfile(MATROSKA_TAG_DATA[i]) => RowRegistered(MATROSKA_TAG_DATA[i])
    /\ OverridesApplied
    /\ BaseValuesKept

\* C1 as stated: every stored descriptor d is what lookup by d's id and
\* lookup by d's name both return, the very same object.
C1_DualKeyIdentity ==
    \A d \in Stored(_dict) :
        /\ heap[d].ebml_id \in Ids /\ _dict.ids[heap[d].ebml_id] = d
        /\ heap[d].name \in Names /\ _dict.names[heap[d].name] = d

\* C1 amended: every stored descriptor d is what lookup by d's name returns,
\* and what lookup by d's id returns unless d is LibInternal, which shares
\* INTERNAL_ID with LibInternal2: lookup by INTERNAL_ID returns LibInternal2,
\* equal to LibInternal by id and another object.
C1_DualKeyIdentityButInternal ==
    \A d \in Stored(_dict) :
        /\ heap[d].name \in Names /\ _dict.names[heap[d].name] = d
        /\ heap[d].ebml_id \in Ids
        /\ IF heap[d].name = "LibInternal"
           THEN /\ heap[d].ebml_id = INTERNAL_ID
                /\ _dict.ids[INTERNAL_ID] = Ref("LibInternal2")
                /\ _dict.ids[INTERNAL_ID] # d
                /\ TagEq(heap, d, _dict.ids[INTERNAL_ID])
           ELSE _dict.ids[heap[d].ebml_id] = d

\* A registry rebuilt once, holding the catalogue and both internal tags.
C1_Witness ==
    /\ _initialized /\ rowPasses = 2
    /\ {"Segment", "DisplayWidth", "LibInternal", "LibInternal2"} \subseteq Names
    /\ _dict.ids[INTERNAL_ID] = Ref("LibInternal2")

\* What "key in MATROSKA_TAGS" answers when the key is not one: False, no error.
NotAKey(r) == r.err = "none" /\ ~r.flag

\* C2: a lookup of an int that the registry does not hold raises nothing and
\* returns an object that did not exist before, with the looked-up id, parent
\* "*", not mandatory, multiple, webm, versions 1 to 4; the object is not
\* stored, a registry that was loaded is left as it was, and a second lookup
\* of the same int returns another object, equal to the first by id.
C2_UnknownIdFallback ==
    [][(/\ last'.op = "getitem" /\ last'.key.isint
        /\ NotAKey(Contains(St, last'.key)))
        => /\ last'.exc = "none"
           /\ last'.tag \notin DOMAIN heap
           /\ last'.tag \in DOMAIN heap'
           /\ heap'[last'.tag].ebml_id = last'.key.i
           /\ heap'[last'.tag].parent = GlobalP
           /\ ~Mandatory(heap', last'.tag)
           /\ heap'[last'.tag].multiple
           /\ heap'[last'.tag].webm
           /\ heap'[last'.tag].minver = 1 /\ heap'[last'.tag].maxver = 4
           /\ last'.tag \notin Stored(_dict')
           /\ _initialized => (_dict' = _dict /\ DictLen(_dict') = DictLen(_dict))
           /\ (last.op = "getitem" /\ last.key = last'.key /\ last.exc = "none")
                => (last'.tag # last.tag /\ TagEq(heap', last'.tag, last.tag))
      ]_vars

\* The second of two objects made up for the id 999, neither stored.
C2_Witness ==
    /\ last.op = "getitem" /\ last.key = KeyI(999) /\ last.exc = "none"
    /\ fresh = 2 /\ last.tag = Len(heap) /\ Len(heap) > 2
    /\ heap[Len(heap)].name = "Unknown" /\ heap[Len(heap) - 1].name = "Unknown"
    /\ heap[Len(heap) - 1].ebml_id = 999
    /\ 999 \notin Ids

\* C3: when a read or set_doc_type_and_version is over, the registry is
\* loaded in full for the active profile, overrides included.
C3_NeverPartial ==
    (/\ last.op \in ReadOps \cup {"delayed_init", "set_doc_type_and_version"}
     /\ last.exc # "AssertionError")
        => (_initialized /\ Populated)

\* A rebuild for webm is over: the table had been cleared and is full again.
C3_Witness ==
    /\ last.op = "set_doc_type_and_version" /\ last.exc = "none"
    /\ rowPasses = 2 /\ is_webm
    /\ "DisplayWidth" \in Names
    /\ heap[Ref("DisplayWidth")].default = Ref("PixelWidth")
    /\ heap[Ref("Segment")].header_size_min = 8

\* C4: under webm nothing is registered, by id or by name, whose row is not
\* webm; under matroska the registered names are those of the rows whose
\* version range holds the active version.
C4_ProfileFiltering ==
    _initialized =>
        IF is_webm
        THEN \A i \in 1..Len(MATROSKA_TAG_DATA) :
                ~MATROSKA_TAG_DATA[i].webm =>
                    /\ MATROSKA_TAG_DATA[i].name \notin Names
                    /\ MATROSKA_TAG_DATA[i].ebml_id \notin Ids
        ELSE Names = {MATROSKA_TAG_DATA[i].name :
                        i \in {j \in 1..Len(MATROSKA_TAG_DATA) :
                                /\ MATROSKA_TAG_DATA[j].minver <= version
                                /\ version <= MATROSKA_TAG_DATA[j].maxver}}

\* A webm build after a matroska build that had registered AttachedFile.
C4_Witness ==
    /\ last.op = "set_doc_type_and_version" /\ is_webm /\ rowPasses = 2
    /\ "AttachedFile" \notin Names /\ "Segment" \in Names
    /\ \E a \in DOMAIN heap : heap[a].name = "AttachedFile"

\* A matroska version 2 build: StereoMode, there from version 3, is left out.
C4_WitnessVersion ==
    /\ last.op = "set_doc_type_and_version" /\ ~is_webm /\ version = 2
    /\ "StereoMode" \notin Names /\ "FlagEnabled" \in Names

\* C5: a read or delayed_init call runs the row pass and the override pass
\* once each if the registry was not loaded and not at all if it was, and
\* leaves it loaded.
C5_LoadOnce ==
    [][(last'.op \in ReadOps \cup {"delayed_init"})
        => /\ _initialized'
           /\ IF _initialized
              THEN rowPasses' = rowPasses /\ overridePasses' = overridePasses
              ELSE rowPasses' = rowPasses + 1 /\ overridePasses' = overridePasses + 1
      ]_vars

\* delayed_init called on a registry that an earlier lookup had loaded.
C5_Witness ==
    /\ last.op = "delayed_init" /\ fresh = 1
    /\ rowPasses = 1 /\ overridePasses = 1 /\ ~is_webm /\ version = 4

\* C6 as stated: once loaded, under any profile, LibInternal and LibInternal2
\* are registered, with INTERNAL_ID, parent "*", multiple, not mandatory.
C6_InternalTags ==
    _initialized =>
        \A n \in {"LibInternal", "LibInternal2"} :
            /\ n \in Names
            /\ heap[Ref(n)].ebml_id = INTERNAL_ID
            /\ heap[Ref(n)].parent = GlobalP
            /\ heap[Ref(n)].multiple
            /\ ~Mandatory(heap, Ref(n))

\* C7 as stated: once loaded, every override entry with a registered target
\* shows on it, and an entry without one changes nothing and raises nothing.
C7_Overrides ==
    _initialized =>
        /\ OverridesApplied
        /\ BaseValuesKept
        /\ (/\ last.op = "set_doc_type_and_version"
            /\ \E i \in 1..Len(OverrideKeys) : OverrideKeys[i].name \notin Names)
                => last.exc # "KeyError"

\* C8: a registered d with a Tag parent p is once in p's children, in p's
\* required children iff d is mandatory and has no default, in p's unique
\* children iff d is not multiple.
C8_ChildLists ==
    \A d \in Stored(_dict) :
        heap[d].parent \notin {NoneP, GlobalP} =>
            /\ Count(heap[heap[d].parent].children, d) = 1
            /\ Count(RequiredChildren(heap, heap[d].parent), d)
                    = IF heap[d]._mandatory /\ "default" \notin heap[d].attrs
                      THEN 1 ELSE 0
            /\ Count(UniqueChildren(heap, heap[d].parent), d)
                    = IF heap[d].multiple THEN 0 ELSE 1

\* DisplayWidth, built mandatory, got its default from the override pass and
\* is no required child of Video, where PixelWidth is one.
C8_Witness ==
    /\ _initialized /\ "DisplayWidth" \in Names
    /\ heap[Ref("DisplayWidth")]._mandatory
    /\ "default" \in heap[Ref("DisplayWidth")].attrs
    /\ Count(RequiredChildren(heap, Ref("Video")), Ref("DisplayWidth")) = 0
    /\ Count(RequiredChildren(heap, Ref("Video")), Ref("PixelWidth")) = 1
    /\ Count(UniqueChildren(heap, Ref("Video")), Ref("DisplayWidth")) = 1

\* C9: a Tag is mandatory iff it was built mandatory and has no default; the
\* flag it was built with is the row's, whatever was attached later, and a
\* registered Tag whose row or whose override entry gives a default is not
\* mandatory.
C9_DerivedRequired ==
    /\ \A a \in DOMAIN heap :
        /\ Mandatory(heap, a) <=> (heap[a]._mandatory /\ "default" \notin heap[a].attrs)
        /\ "default" \in heap[a].attrs => ~Mandatory(heap, a)
    /\ \A i \in 1..Len(MATROSKA_TAG_DATA) :
        LET r == MATROSKA_TAG_DATA[i]
        IN (r.name \in Names /\ last.exc # "KeyError") =>
            /\ heap[Ref(r.name)]._mandatory = r.mandatory
            /\ ("default" \in DOMAIN r \/ HasOverride(r.name, "default"))
                    => ~Mandatory(heap, Ref(r.name))
            /\ (r.mandatory /\ "default" \notin DOMAIN r /\ ~HasOverride(r.name, "default"))
                    => Mandatory(heap, Ref(r.name))

\* Defaults of both origins on Tags built mandatory: FlagEnabled's from its
\* row, DisplayWidth's from the override pass.
C9_Witness ==
    /\ _initialized /\ {"FlagEnabled", "DisplayWidth", "PixelWidth"} \subseteq Names
    /\ heap[Ref("FlagEnabled")]._mandatory /\ ~Mandatory(heap, Ref("FlagEnabled"))
    /\ heap[Ref("DisplayWidth")]._mandatory /\ ~Mandatory(heap, Ref("DisplayWidth"))
    /\ Mandatory(heap, Ref("PixelWidth"))

\* C10 as stated: d.is_child(c) is true exactly when c is None and d's parent
\* is None or "*", or c is a Tag and d's parent equals c or is "*", or c
\* equals d and d's recursive flag is set; absent or false, it is not set.
C10_IsChild ==
    last.op = "is_child" =>
        (last.flag <=>
            \/ /\ last.arg = NoneP
               /\ heap[last.tag].parent \in {NoneP, GlobalP}
            \/ /\ last.arg # NoneP
               /\ \/ heap[last.tag].parent = GlobalP
                  \/ /\ heap[last.tag].parent \notin {NoneP, GlobalP}
                     /\ TagEq(heap, heap[last.tag].parent, last.arg)
            \/ /\ last.arg # NoneP
               /\ TagEq(heap, last.arg, last.tag)
               /\ "recursive" \in heap[last.tag].attrs
               /\ heap[last.tag].recursive)

\* A step that did what delayed_init alone does from the state before it, and
\* made no object besides.
C11_OnlyLoaded(r) ==
    /\ _dict' = r.dict
    /\ heap' = r.heap
    /\ _initialized' = r.initialized
    /\ fresh' = fresh

\* C11: a lookup of a string that "in" does not find (an unknown name, or the
\* name of a row the profile filters out) raises KeyError and returns no
\* object; it makes no object, and it leaves the mapping as the load of an
\* unloaded registry made it and a loaded registry exactly as it was.
C11_UnknownNameFails ==
    [][(/\ last'.op = "getitem" /\ ~last'.key.isint
        /\ NotAKey(Contains(St, last'.key)))
        => /\ last'.exc = "KeyError"
           /\ last'.tag = NoneP
           /\ C11_OnlyLoaded(DelayedInit(St))
           /\ _initialized => (_dict' = _dict /\ heap' = heap)
      ]_vars

\* Under webm the row Attachments is filtered out: its name was looked up in
\* the loaded registry and the lookup raised.
C11_Witness ==
    /\ last.op = "getitem" /\ last.key = KeyN("Attachments")
    /\ last.exc = "KeyError"
    /\ is_webm /\ _initialized /\ "Segment" \in Names
    /\ "Attachments" \notin Names
    /\ \E i \in 1..Len(MATROSKA_TAG_DATA) : MATROSKA_TAG_DATA[i].name = "Attachments"

\* The program state after the step, as the record the operators work on.
PostSt ==
    [dict |-> _dict', initialized |-> _initialized', version |-> version',
     is_webm |-> is_webm', data |-> MATROSKA_TAG_DATA', heap |-> heap',
     rowPasses |-> rowPasses', overridePasses |-> overridePasses',
     fresh |-> fresh', err |-> "none", ret |-> NoneP, flag |-> FALSE]

\* A lookup that ended in state r returned the object t.
ReturnsItself(r, t) == r.err = "none" /\ r.ret = t

\* C12 as stated: insert(x) of what is no Tag raises, and leaves the keys,
\* the objects and the initialised flag as they were; after insert(t) of a
\* Tag t, lookup by t's id and lookup by t's name both return t itself.
C12_InsertContract ==
    [][last'.op = "insert"
        => IF last'.arg \in NonTags
           THEN /\ last'.exc = "ValueError"
                /\ _dict' = _dict
                /\ _initialized' = _initialized
           ELSE /\ last'.exc = "none"
                /\ ReturnsItself(GetItem(PostSt, KeyI(heap[last'.arg].ebml_id)),
                                 last'.arg)
                /\ ReturnsItself(GetItem(PostSt, KeyN(heap[last'.arg].name)),
                                 last'.arg)
      ]_vars

\* lookup(id) that ended in state r made the answer up: a new "Unknown".
MadeUp(r) ==
    r.err = "none" /\ r.ret \notin DOMAIN heap' /\ r.heap[r.ret].name = "Unknown"

\* C13 as stated: after remove(id) of a registered int id, the Tag that was
\* stored under id is found neither under id nor under its name ("in" is
\* false for both, lookup by id makes an Unknown up), the mapping is two
\* keys shorter, and every other key maps to the object it mapped to.
C13_RemoveContract ==
    [][(last'.op = "remove" /\ last'.key.i \in DOMAIN _dict.ids)
        => LET id == last'.key.i
               name == heap[_dict.ids[id]].name
           IN /\ last'.exc = "none"
              /\ NotAKey(Contains(PostSt, KeyI(id)))
              /\ NotAKey(Contains(PostSt, KeyN(name)))
              /\ MadeUp(GetItem(PostSt, KeyI(id)))
              /\ DictLen(_dict') = DictLen(_dict) - 2
              /\ \A k \in DOMAIN _dict.ids \ {id} :
                    k \in DOMAIN _dict'.ids /\ _dict'.ids[k] = _dict.ids[k]
              /\ \A n \in DOMAIN _dict.names \ {name} :
                    n \in DOMAIN _dict'.names /\ _dict'.names[n] = _dict.names[n]
      ]_vars

\* remove(id) raised after it had deleted the id key: the Tag's name key was
\* gone already.
C13_HalfRemoved ==
    /\ last.op = "remove" /\ last.exc = "KeyError"
    /\ last.key.i \in DOMAIN last.pre.ids
    /\ DictLen(_dict) = DictLen(last.pre) - 1

\* In the mapping d over the heap h, every stored Tag is what its id and its
\* name both map to.
DualKey(d, h) ==
    \A x \in Stored(d) :
        /\ h[x].ebml_id \in DOMAIN d.ids /\ d.ids[h[x].ebml_id] = x
        /\ h[x].name \in DOMAIN d.names /\ d.names[h[x].name] = x

\* C17 as stated: an insert or a remove made on a registry where every stored
\* Tag is what its id and its name both map to leaves the registry so.
C17_MutationKeepsDualKey ==
    [][(last'.op \in {"insert", "remove"} /\ DualKey(_dict, heap))
        => DualKey(_dict', heap')]_vars

\* C19 as stated: every Tag in the children of a registered Tag is itself
\* registered under its id.
C19_ChildrenRegistered ==
    \A d \in Stored(_dict) :
        \A i \in 1..Len(heap[d].children) :
            LET c == heap[d].children[i]
            IN heap[c].ebml_id \in Ids /\ _dict.ids[heap[c].ebml_id] = c

\* C16: when set_doc_type_and_version has returned, every registered Tag is
\* an object made by this rebuild, and so are its parent, each of its
\* children and the Tag an override gave it for a default; every object that
\* existed before the call is as it was, parent and children included.
C16_RebuildDiscardsOldGraph ==
    [][(last'.op = "set_doc_type_and_version" /\ last'.exc = "none")
        => /\ \A d \in Stored(_dict') :
                /\ d \notin DOMAIN heap
                /\ heap'[d].parent \notin DOMAIN heap
                /\ \A i \in 1..Len(heap'[d].children) :
                        heap'[d].children[i] \notin DOMAIN heap
                /\ HasOverride(heap'[d].name, "default")
                        => heap'[d].default \notin DOMAIN heap
           /\ \A a \in DOMAIN heap : heap'[a] = heap[a]
      ]_vars

\* A rebuild under webm after a load: the first Segment, object 3, is no
\* longer registered and still has its children; another Segment is.
C16_Witness ==
    /\ last.op = "set_doc_type_and_version" /\ last.exc = "none"
    /\ rowPasses = 2 /\ is_webm
    /\ heap[3].name = "Segment" /\ heap[3].children # <<>>
    /\ 3 \notin Stored(_dict)
    /\ "Segment" \in Names /\ "DisplayWidth" \in Names
    /\ heap[heap[3].children[1]].parent = 3

\* C18 as stated: the row table is what it was before the first access, row
\* for row.
C18_TableUntouched == MATROSKA_TAG_DATA \in {TagData(m) : m \in BOOLEAN}

\* The row belongs to the profile (w, v).
Kept(r, w, v) == IF w THEN r.webm ELSE r.minver <= v /\ v <= r.maxver

\* The rows of data that the profile keeps while no kept row before them has
\* their parent's name.
Orphans(data, w, v) ==
    {i \in 1..Len(data) :
        /\ Kept(data[i], w, v)
        /\ data[i].parent \notin {NoneName, "*"}
        /\ ~\E j \in 1..(i - 1) :
                Kept(data[j], w, v) /\ data[j].name = data[i].parent}

\* The first of them, 0 when there is none.
OrphanAt(data, w, v) ==
    IF Orphans(data, w, v) = {} THEN 0
    ELSE CHOOSE i \in Orphans(data, w, v) : \A j \in Orphans(data, w, v) : i <= j

\* The registry holds the rows of data before row k that the profile keeps,
\* each as constructed: no override shows.
PartialUpTo(d, h, data, w, v, k) ==
    /\ DOMAIN d.names = {data[j].name : j \in {i \in 1..(k - 1) : Kept(data[i], w, v)}}
    /\ \A j \in 1..(k - 1) :
        Kept(data[j], w, v) =>
            /\ data[j].ebml_id \in DOMAIN d.ids
            /\ h[d.names[data[j].name]].ebml_id = data[j].ebml_id
            /\ h[d.names[data[j].name]].cls = Class(data[j].cls_name)
            /\ h[d.names[data[j].name]].header_size_min = 0
            /\ h[d.names[data[j].name]].data_size_min = 0
            /\ h[d.names[data[j].name]].attrs = DOMAIN RowKwargs(data[j])

\* The call in last' answered from the mapping as it was before the step.
AnsweredFromTable ==
    /\ last'.op = "getitem" =>
        IF HasKey(_dict, last'.key)
        THEN last'.exc = "none" /\ last'.tag = At(_dict, last'.key)
        ELSE IF last'.key.isint
             THEN last'.exc = "none" /\ last'.tag \notin Stored(_dict)
             ELSE last'.exc = "KeyError"
    /\ last'.op = "get" =>
        /\ last'.exc = "none"
        /\ last'.tag = IF HasKey(_dict, last'.key) THEN At(_dict, last'.key) ELSE NoneP
    /\ last'.op = "contains" =>
        last'.exc = "none" /\ last'.flag = HasKey(_dict, last'.key)
    /\ last'.op = "len" => last'.exc = "none" /\ last'.n = DictLen(_dict)
    /\ last'.op \in {"iter", "keys", "items"} =>
        /\ last'.exc = "none"
        /\ last'.ids = DOMAIN _dict.ids /\ last'.names = DOMAIN _dict.names
    /\ last'.op \in {"items", "values"} =>
        last'.exc = "none" /\ last'.vals = Stored(_dict)

\* C14: a load that meets a kept row whose parent's name is not registered
\* raises KeyError out of the call that triggered it; the rows before that
\* row stay registered as constructed, without any override, and the
\* initialised flag stays set; every read that follows answers from that
\* table and runs no load.
C14_InitFailure ==
    [][/\ (/\ rowPasses' = rowPasses + 1
           /\ OrphanAt(MATROSKA_TAG_DATA', is_webm', version') # 0)
          => /\ last'.exc = "KeyError"
             /\ _initialized'
             /\ overridePasses' = overridePasses
             /\ PartialUpTo(_dict', heap', MATROSKA_TAG_DATA', is_webm', version',
                            OrphanAt(MATROSKA_TAG_DATA', is_webm', version'))
       /\ (/\ _initialized
           /\ OrphanAt(MATROSKA_TAG_DATA, is_webm, version) # 0
           /\ last'.op \in ReadOps)
          => /\ rowPasses' = rowPasses
             /\ overridePasses' = overridePasses
             /\ _initialized'
             /\ _dict' = _dict
             /\ AnsweredFromTable
      ]_vars

\* The first read of a registry whose table drops Tracks at version 4 raised
\* KeyError at the TrackEntry row: Segment is registered with its base
\* header size, TrackEntry and the rows after it are not.
C14_Witness ==
    /\ last.op \in ReadOps /\ last.exc = "KeyError"
    /\ _initialized /\ rowPasses = 1 /\ overridePasses = 0
    /\ MATROSKA_TAG_DATA[OrphanAt(MATROSKA_TAG_DATA, is_webm, version)].name = "TrackEntry"
    /\ "Segment" \in Names /\ heap[Ref("Segment")].header_size_min = 0
    /\ "TrackEntry" \notin Names /\ "PixelWidth" \notin Names

\* A read after that failure: the lookup of Segment returned the registered
\* object, and no load ran again.
C14_WitnessLaterRead ==
    /\ last.op = "getitem" /\ last.key = KeyN("Segment") /\ last.exc = "none"
    /\ last.tag = Ref("Segment")
    /\ _initialized /\ rowPasses = 1 /\ overridePasses = 0
    /\ ~is_webm /\ version = 4
    /\ "TrackEntry" \notin Names

\* The Tag objects made with the name n.
Made(n) == {a \in DOMAIN heap : heap[a].name = n}

\* Both threads found the flag unset, and both are through the row loop.
BothLoaded ==
    /\ thr.loaders = Threads
    /\ \A t \in Threads : thr.pc[t] \in {"overrides", "lookup", "done"}
    /\ \A t \in Threads : thr.res[t].exc = "none"

\* Every row of the profile was made into a Tag by each of the two loads.
EveryRowTwice ==
    \A i \in 1..Len(MATROSKA_TAG_DATA) :
        InProfile(MATROSKA_TAG_DATA[i]) =>
            /\ Cardinality(Made(MATROSKA_TAG_DATA[i].name)) >= 2
            /\ MATROSKA_TAG_DATA[i].ebml_id # INTERNAL_ID
                    => Cardinality(Made(MATROSKA_TAG_DATA[i].name)) = 2

\* Every Tag with a Tag for a parent is in that parent's children, once.
LinkedOnce ==
    \A a \in DOMAIN heap :
        heap[a].parent \in DOMAIN heap => Count(heap[heap[a].parent].children, a) = 1

\* The children of p hold two objects that are equal by id.
TwinChildren(p) ==
    \E i, j \in 1..Len(heap[p].children) :
        /\ i < j
        /\ heap[p].children[i] # heap[p].children[j]
        /\ TagEq(heap, heap[p].children[i], heap[p].children[j])

\* Thread t found the flag set and made its lookup: it was answered from the
\* mapping as the loading thread had left it by then.
ReadWhatWasThere(t) ==
    LET res == thr.res[t]
    IN /\ (~res.key.isint /\ res.key.n \notin res.names) => res.exc = "KeyError"
       /\ (res.key.isint /\ res.key.i \notin res.ids)
            => /\ res.exc = "none"
               /\ heap[res.tag].name = "Unknown"
               /\ res.tag \notin Stored(_dict)
       /\ (~res.key.isint /\ res.key.n \in res.names /\ res.overridePasses = 0)
            => res.exc = "none" /\ res.header_size_min = 0

\* C15: no lock orders two threads in their first MATROSKA_TAGS[key].  When
\* both found the flag unset, both ran the load and every row of the profile
\* was made into a Tag twice, each Tag appended to the children of the parent
\* registered at that moment; a thread that found the flag set was answered
\* from the mapping as it was then: KeyError for a name not inserted yet, a
\* made-up Unknown for an id not inserted yet, the base value of an
\* attribute while no override pass had run.
C15_UnsynchronisedFirstAccess ==
    /\ BothLoaded => EveryRowTwice
    /\ LinkedOnce
    /\ \A t \in Threads :
        (thr.pc[t] = "done" /\ t \notin thr.loaders) => ReadWhatWasThere(t)

\* (a) Both threads ran the load to its end, and the children of some Tag
\* hold two equal-by-id objects.
C15_Witness ==
    /\ thr.loaders = Threads
    /\ \A t \in Threads : thr.pc[t] = "done" /\ thr.res[t].exc = "none"
    /\ rowPasses = 2 /\ overridePasses = 2
    /\ EveryRowTwice
    /\ \E p \in DOMAIN heap : TwinChildren(p)

\* (b) A thread found the flag set while the other had inserted some rows:
\* the known name DisplayWidth raised KeyError,
C15_WitnessNotFound ==
    \E t \in Threads :
        /\ thr.pc[t] = "done" /\ t \notin thr.loaders
        /\ thr.res[t].key = KeyN("DisplayWidth") /\ thr.res[t].exc = "KeyError"
        /\ "Segment" \in thr.res[t].names
        /\ "DisplayWidth" \in Names

\* the known id of DisplayWidth gave the made-up Unknown,
C15_WitnessFallback ==
    \E t \in Threads :
        /\ thr.pc[t] = "done" /\ t \notin thr.loaders
        /\ thr.res[t].key = KeyI(21680) /\ thr.res[t].exc = "none"
        /\ heap[thr.res[t].tag].name = "Unknown"
        /\ "Segment" \in thr.res[t].names
        /\ 21680 \in Ids

\* and Segment was read with the base header_size_min 0, before the override
\* pass of the other thread set it to 8.
C15_WitnessBaseValue ==
    \E t \in Threads :
        /\ thr.pc[t] = "done" /\ t \notin thr.loaders
        /\ thr.res[t].key = KeyN("Segment") /\ thr.res[t].exc = "none"
        /\ thr.res[t].header_size_min = 0
        /\ heap[thr.res[t].tag].header_size_min = 8

====
